---- MODULE Spec2Model ----
(***************************************************************************)
(* Model of src/src/bin/echo.rs: a Maelstrom-style echo node.  It reads    *)
(* newline-delimited JSON envelopes from stdin, answers the first `init`   *)
(* with `init_ok`, then answers each `echo` with `echo_ok`.                *)
(*                                                                         *)
(* A wire line is modelled by its JSON parse tree (Line), a decoded        *)
(* envelope by a typed record (Message); Decode and Encode translate       *)
(* between the two as serde does: a struct is read from a JSON object by   *)
(* member name or from a JSON array by position, and a member that is      *)
(* read must not be given twice.                                           *)
(***************************************************************************)
EXTENDS Integers, Sequences, FiniteSets, TLC

\* ------------------------------------------------------------------------
\* Bounds and program constants
\* ------------------------------------------------------------------------

\* Longest input stream (number of records) that Init enumerates.
MaxLen == 3

\* A u32 (State.msg_id and every msg_id / in_reply_to field) is kept as two
\* 16-bit limbs [hi, lo], value hi * 2^16 + lo, so that the whole range
\* 0 .. 2^32 - 1 and the wrap at 2^32 are represented exactly.
Limb == 65536

U32(n) == [hi |-> n \div Limb, lo |-> n % Limb]

U32Max == [hi |-> Limb - 1, lo |-> Limb - 1]

\* ------------------------------------------------------------------------
\* JSON values as they appear on the wire
\* ------------------------------------------------------------------------

\* A JSON member that is expected to be a string: present as a string that
\* is a Rust String, absent from the object (or past the end of the array),
\* present with another JSON type that serde_json can hold as a value
\* ("bad": null, a number, ..), given more than once in the object, or
\* present as a token serde_json cannot turn into a value ("inv": a string
\* with a lone surrogate escape, a number out of range such as 1e999, a
\* value nested beyond the recursion limit).
JStr(s) == [k |-> "str", s |-> s]
JStrAbsent == [k |-> "absent", s |-> ""]
JStrBad == [k |-> "bad", s |-> ""]
JStrDup == [k |-> "dup", s |-> ""]
JStrInvalid == [k |-> "inv", s |-> ""]

\* A JSON member that is expected to be an unsigned integer.  "num" is a
\* non-negative integer literal of any size, top * 2^32 + hi * 2^16 + lo;
\* "bad" is any other value serde_json can hold (a string, a fraction, a
\* negative number, null); "inv" is a token it cannot (1e999, ..).
JNum(n) == [k |-> "num", top |-> 0, hi |-> n \div Limb, lo |-> n % Limb]
JNumOf(u) == [k |-> "num", top |-> 0, hi |-> u.hi, lo |-> u.lo]
JNumWide(top, hi, lo) == [k |-> "num", top |-> top, hi |-> hi, lo |-> lo]
JNumAbsent == [k |-> "absent", top |-> 0, hi |-> 0, lo |-> 0]
JNumBad == [k |-> "bad", top |-> 0, hi |-> 0, lo |-> 0]
JNumDup == [k |-> "dup", top |-> 0, hi |-> 0, lo |-> 0]
JNumInvalid == [k |-> "inv", top |-> 0, hi |-> 0, lo |-> 0]

\* A JSON member that is expected to be an array of strings.  "arr": an
\* array whose elements are all Rust Strings; "inv": a value with a token
\* serde_json cannot turn into a value, such as ["n1", "\ud800"].
JArr(a) == [k |-> "arr", a |-> a]
JArrAbsent == [k |-> "absent", a |-> <<>>]
JArrBad == [k |-> "bad", a |-> <<>>]
JArrDup == [k |-> "dup", a |-> <<>>]
JArrInvalid == [k |-> "inv", a |-> <<>>]

\* The "body" as a JSON object: its "type" tag, the members the variants
\* read, and what else it holds.  rest = "none": no other member; "some":
\* other members, all of which serde_json can hold as values; "inv": another
\* member whose key or value it cannot (see JStr).
JBody(type, msg_id, in_reply_to, node_id, node_ids, echo) ==
    [k |-> "obj", type |-> type, msg_id |-> msg_id,
     in_reply_to |-> in_reply_to, node_id |-> node_id,
     node_ids |-> node_ids, echo |-> echo, rest |-> "none", elems |-> <<>>]
JBodyRest(b, rest) == [b EXCEPT !.rest = rest]
\* The "body" as a JSON array: its elements, in order.
JBodySeq(elems) ==
    [k |-> "seq", type |-> JStrAbsent, msg_id |-> JNumAbsent,
     in_reply_to |-> JNumAbsent, node_id |-> JStrAbsent,
     node_ids |-> JArrAbsent, echo |-> JStrAbsent, rest |-> "none",
     elems |-> elems]
\* No "body"; a "body" that is neither an object nor an array; "body" given
\* more than once.
JBodyAbsent ==
    [k |-> "absent", type |-> JStrAbsent, msg_id |-> JNumAbsent,
     in_reply_to |-> JNumAbsent, node_id |-> JStrAbsent,
     node_ids |-> JArrAbsent, echo |-> JStrAbsent, rest |-> "none",
     elems |-> <<>>]
JBodyBad ==
    [k |-> "bad", type |-> JStrAbsent, msg_id |-> JNumAbsent,
     in_reply_to |-> JNumAbsent, node_id |-> JStrAbsent,
     node_ids |-> JArrAbsent, echo |-> JStrAbsent, rest |-> "none",
     elems |-> <<>>]
JBodyDup ==
    [k |-> "dup", type |-> JStrAbsent, msg_id |-> JNumAbsent,
     in_reply_to |-> JNumAbsent, node_id |-> JStrAbsent,
     node_ids |-> JArrAbsent, echo |-> JStrAbsent, rest |-> "none",
     elems |-> <<>>]

\* One record of the stream.  utf8 = FALSE: the bytes are not valid UTF-8.
\* wf = FALSE: the text is neither a JSON object nor a JSON array.
\* form = "obj": a JSON object with the members src, dest, body.  extra
\* tells what else it holds: "none"; "some" other members, whose values are
\* skipped unread; "inv", another member whose key cannot be read as a
\* string.  form = "seq": a JSON array whose first three elements are src,
\* dest, body ("absent" past its end); extra = "some" when it has more.
JLine(src, dest, body) ==
    [utf8 |-> TRUE, wf |-> TRUE, form |-> "obj", src |-> src, dest |-> dest,
     body |-> body, extra |-> "none"]
JLineSeq(src, dest, body, extra) ==
    [utf8 |-> TRUE, wf |-> TRUE, form |-> "seq", src |-> src, dest |-> dest,
     body |-> body, extra |-> extra]
JLineExtra(l, extra) == [l EXCEPT !.extra = extra]
GarbageLine ==
    [utf8 |-> TRUE, wf |-> FALSE, form |-> "none", src |-> JStrAbsent,
     dest |-> JStrAbsent, body |-> JBodyAbsent, extra |-> "none"]
NonUtf8Line ==
    [utf8 |-> FALSE, wf |-> FALSE, form |-> "none", src |-> JStrAbsent,
     dest |-> JStrAbsent, body |-> JBodyAbsent, extra |-> "none"]

\* ------------------------------------------------------------------------
\* Payload and Message (the typed values)
\* ------------------------------------------------------------------------

PayloadInit(msg_id, node_id, node_ids) ==
    [type |-> "init", msg_id |-> msg_id, node_id |-> node_id,
     node_ids |-> node_ids]
PayloadInitOk(in_reply_to) == [type |-> "init_ok", in_reply_to |-> in_reply_to]
PayloadEcho(msg_id, echo) == [type |-> "echo", msg_id |-> msg_id, echo |-> echo]
PayloadEchoOk(msg_id, in_reply_to, echo) ==
    [type |-> "echo_ok", msg_id |-> msg_id, in_reply_to |-> in_reply_to,
     echo |-> echo]

Message(src, dst, payload) == [src |-> src, dst |-> dst, payload |-> payload]

\* ------------------------------------------------------------------------
\* The codec: serde_json::from_str::<Message> and serde_json::to_vec
\* ------------------------------------------------------------------------

\* A String member decodes iff it is present, once, and a JSON string that
\* is a Rust String (no lone surrogate escape).
IsString(j) == j.k = "str"

\* Mutant of IsU32: an absent member is taken as 0.
IsU32Lenient(j) ==
    j.k \in {"num", "absent"} /\ j.top = 0 /\ j.hi \in 0..(Limb - 1)
        /\ j.lo \in 0..(Limb - 1)

\* A u32 member decodes iff it is present, once, an unsigned integer
\* literal, and at most u32::MAX.
IsU32(j) == j.k = "num" /\ j.top = 0 /\ j.hi \in 0..(Limb - 1) /\ j.lo \in 0..(Limb - 1)

\* A Vec<String> member decodes iff it is present, once, and an array of
\* such strings.
IsStringVec(j) == j.k = "arr"

AsU32(j) == [hi |-> j.hi, lo |-> j.lo]

\* #[serde(tag = "type")] enum Payload read from a JSON array: the first
\* element is the tag, the others are the fields of the variant it names,
\* in declaration order, no fewer and no more.  The result is the body with
\* its members named; JBodyBad when the array fits no variant.
SeqFields(e) ==
    IF Len(e) = 0 \/ ~IsString(e[1]) THEN JBodyBad
    ELSE CASE e[1].s = "init" /\ Len(e) = 4 ->
                JBody(e[1], e[2], JNumAbsent, e[3], e[4], JStrAbsent)
           [] e[1].s = "init_ok" /\ Len(e) = 2 ->
                JBody(e[1], JNumAbsent, e[2], JStrAbsent, JArrAbsent,
                      JStrAbsent)
           [] e[1].s = "echo" /\ Len(e) = 3 ->
                JBody(e[1], e[2], JNumAbsent, JStrAbsent, JArrAbsent, e[3])
           [] e[1].s = "echo_ok" /\ Len(e) = 4 ->
                JBody(e[1], e[2], e[3], JStrAbsent, JArrAbsent, e[4])
           [] OTHER -> JBodyBad

\* The members of a body, by name (object) or by position (array).
Fields(b) == IF b.k = "seq" THEN SeqFields(b.elems) ELSE b

\* #[serde(tag = "type")] first reads the whole body into a buffer of
\* values, the members no variant reads included: that fails on any token
\* serde_json cannot turn into a value.
Buffers(o) ==
    /\ o.rest # "inv"
    /\ o.type.k # "inv" /\ o.msg_id.k # "inv" /\ o.in_reply_to.k # "inv"
    /\ o.node_id.k # "inv" /\ o.node_ids.k # "inv" /\ o.echo.k # "inv"

\* #[serde(tag = "type")] enum Payload: the body is buffered, the tag
\* selects the variant, then every field of that variant must be present,
\* once, with its type.  The other buffered members are dropped, whatever
\* their type and repeated or not.
PayloadDecodes(b) ==
    LET o == Fields(b) IN
    /\ o.k = "obj"
    /\ Buffers(o)
    /\ IsString(o.type)
    /\ \/ o.type.s = "init" /\ IsU32(o.msg_id) /\ IsString(o.node_id)
          /\ IsStringVec(o.node_ids)
       \/ o.type.s = "init_ok" /\ IsU32(o.in_reply_to)
       \/ o.type.s = "echo" /\ IsU32(o.msg_id) /\ IsString(o.echo)
       \/ o.type.s = "echo_ok" /\ IsU32(o.msg_id) /\ IsU32(o.in_reply_to)
          /\ IsString(o.echo)

DecodePayload(b) ==
    LET o == Fields(b) IN
    CASE o.type.s = "init" ->
           PayloadInit(AsU32(o.msg_id), o.node_id.s, o.node_ids.a)
      [] o.type.s = "init_ok" -> PayloadInitOk(AsU32(o.in_reply_to))
      [] o.type.s = "echo" -> PayloadEcho(AsU32(o.msg_id), o.echo.s)
      [] o.type.s = "echo_ok" ->
           PayloadEchoOk(AsU32(o.msg_id), AsU32(o.in_reply_to), o.echo.s)

\* struct Message { src, dest -> dst, body -> payload }, read from an
\* object by member name (the values of other members are skipped, their
\* keys are read) or from an array of exactly three elements by position.
Decodes(line) ==
    /\ line.wf
    /\ (line.form = "seq" => line.extra = "none")
    /\ line.extra # "inv"
    /\ IsString(line.src)
    /\ IsString(line.dest)
    /\ PayloadDecodes(line.body)

\* serde_json::from_str(&line): Ok(Message) or Err(serde_json::Error).
Decode(line) ==
    IF Decodes(line)
    THEN [ok |-> TRUE,
          msg |-> Message(line.src.s, line.dest.s, DecodePayload(line.body))]
    ELSE [ok |-> FALSE]

\* Mutant of EncodePayload: echo_ok is written with msg_id and in_reply_to
\* exchanged.
EncodePayloadSwapped(p) ==
    CASE p.type = "init" ->
           JBody(JStr("init"), JNumOf(p.msg_id), JNumAbsent, JStr(p.node_id),
                 JArr(p.node_ids), JStrAbsent)
      [] p.type = "init_ok" ->
           JBody(JStr("init_ok"), JNumAbsent, JNumOf(p.in_reply_to),
                 JStrAbsent, JArrAbsent, JStrAbsent)
      [] p.type = "echo" ->
           JBody(JStr("echo"), JNumOf(p.msg_id), JNumAbsent, JStrAbsent,
                 JArrAbsent, JStr(p.echo))
      [] p.type = "echo_ok" ->
           JBody(JStr("echo_ok"), JNumOf(p.in_reply_to), JNumOf(p.msg_id),
                 JStrAbsent, JArrAbsent, JStr(p.echo))

\* derive(Serialize) for Payload: the tag and the fields of the variant.
EncodePayload(p) ==
    CASE p.type = "init" ->
           JBody(JStr("init"), JNumOf(p.msg_id), JNumAbsent, JStr(p.node_id),
                 JArr(p.node_ids), JStrAbsent)
      [] p.type = "init_ok" ->
           JBody(JStr("init_ok"), JNumAbsent, JNumOf(p.in_reply_to),
                 JStrAbsent, JArrAbsent, JStrAbsent)
      [] p.type = "echo" ->
           JBody(JStr("echo"), JNumOf(p.msg_id), JNumAbsent, JStrAbsent,
                 JArrAbsent, JStr(p.echo))
      [] p.type = "echo_ok" ->
           JBody(JStr("echo_ok"), JNumOf(p.msg_id), JNumOf(p.in_reply_to),
                 JStrAbsent, JArrAbsent, JStr(p.echo))

\* serde_json::to_vec(message): the JSON object, without line terminator.
Encode(m) == JLine(JStr(m.src), JStr(m.dst), EncodePayload(m.payload))

\* ------------------------------------------------------------------------
\* The input streams that Init enumerates
\* ------------------------------------------------------------------------

InitLine(src, dest, msg_id, node_id, node_ids) ==
    JLine(JStr(src), JStr(dest),
          JBody(JStr("init"), msg_id, JNumAbsent, JStr(node_id),
                JArr(node_ids), JStrAbsent))
EchoLine(src, dest, msg_id, echo) ==
    JLine(JStr(src), JStr(dest),
          JBody(JStr("echo"), msg_id, JNumAbsent, JStrAbsent, JArrAbsent,
                echo))

\* An init and an echo written as JSON arrays: the envelope as the array
\* [src, dest, body] with the body as the array [tag, fields..], and the
\* envelope as an object whose body is such an array.
SeqInitLine ==
    JLineSeq(JStr("c2"), JStr("n2"),
             JBodySeq(<<JStr("init"), JNum(7), JStr("n2"),
                        JArr(<<"n1", "n2">>)>>),
             "none")
SeqEchoLine ==
    JLine(JStr("c2"), JStr("n1"),
          JBodySeq(<<JStr("echo"), JNumOf(U32Max), JStr("")>>))

\* Records that decode to an `init` envelope.  The second differs from the
\* first in dest and node_ids only; the third names another identity and
\* is written as arrays.
InitLines ==
    { InitLine("c1", "n1", JNum(1), "n1", <<"n1">>),
      InitLine("c1", "n2", JNum(1), "n1", <<"n1", "n2">>),
      SeqInitLine }

\* Records that decode to an `echo` envelope.  The second differs from the
\* first in dest only; the third carries the largest msg_id and an empty
\* string, in a body written as an array.
EchoLines ==
    { EchoLine("c1", "n1", JNum(2), JStr("hello")),
      EchoLine("c1", "n2", JNum(2), JStr("hello")),
      SeqEchoLine }

\* Records that decode to a payload the node never accepts.  The first
\* repeats a member that init_ok does not read, gives another the wrong
\* type, and has further members in the body and in the envelope.
ReplyLines ==
    { JLineExtra(
        JLine(JStr("c1"), JStr("n1"),
              JBodyRest(JBody(JStr("init_ok"), JNumBad, JNum(1), JStrAbsent,
                              JArrAbsent, JStrDup),
                        "some")),
        "some"),
      Encode(Message("c1", "n1", PayloadEchoOk(U32(0), U32(2), "hello"))) }

\* Records that do not decode: not JSON, not UTF-8, an unknown tag, a
\* missing field, a mistyped field, a msg_id of 2^32, a missing src, a src
\* given twice, a msg_id given twice, an array of four elements, an echo
\* string with a lone surrogate escape, a member that echo does not read
\* with a value out of range.
BadLines ==
    { GarbageLine,
      NonUtf8Line,
      JLine(JStr("c1"), JStr("n1"),
            JBody(JStr("broadcast"), JNum(1), JNumAbsent, JStrAbsent,
                  JArrAbsent, JStrAbsent)),
      EchoLine("c1", "n1", JNumAbsent, JStr("hello")),
      EchoLine("c1", "n1", JNumBad, JStr("hello")),
      EchoLine("c1", "n1", JNumWide(1, 0, 0), JStr("hello")),
      JLine(JStrAbsent, JStr("n1"),
            JBody(JStr("init"), JNum(1), JNumAbsent, JStr("n1"),
                  JArr(<<"n1">>), JStrAbsent)),
      JLine(JStrDup, JStr("n1"),
            JBody(JStr("echo"), JNum(2), JNumAbsent, JStrAbsent, JArrAbsent,
                  JStr("hello"))),
      EchoLine("c1", "n1", JNumDup, JStr("hello")),
      JLineSeq(JStr("c1"), JStr("n1"),
               JBody(JStr("echo"), JNum(2), JNumAbsent, JStrAbsent,
                     JArrAbsent, JStr("hello")),
               "some"),
      EchoLine("c1", "n1", JNum(2), JStrInvalid),
      JLine(JStr("c1"), JStr("n1"),
            JBodyRest(JBody(JStr("echo"), JNum(2), JNumAbsent, JStrAbsent,
                            JArrAbsent, JStr("hello")),
                      "inv")) }

Lines == InitLines \cup EchoLines \cup ReplyLines \cup BadLines

\* Record k of the stream s is one app answers in that place: an init first,
\* an echo after it.
Answerable(s, k) ==
    LET d == Decode(s[k]) IN
    d.ok /\ d.msg.payload.type = (IF k = 1 THEN "init" ELSE "echo")

\* The streams of at most MaxLen records in which at most one record stands
\* behind the first one that app does not answer (app returns at that one:
\* what is behind it stays unread, one record or many).
Streams ==
    { s \in UNION { [1..n -> Lines] : n \in 0..MaxLen } :
        \A k \in 1..(Len(s) - 2) : Answerable(s, k) }

\* ------------------------------------------------------------------------
\* State
\* ------------------------------------------------------------------------

VARIABLES
    input,      \* the records stdin will deliver, in order
    lastCut,    \* TRUE: the final record ends at end-of-input, without "\n"
    pos,        \* number of records read_line has consumed
    message,    \* app's `message`: <<>> (None) or <<r>> (Some(r)), r a Decode result
    state,      \* app's `state`: [node_id, msg_id]
    sending,    \* the &Message send_message is working on: <<>> or <<m>>
    stdout,     \* records written so far, each with how far its write got
    pc,         \* where app stands
    error       \* why app returned Err, "" while it has not

vars == <<input, lastCut, pos, message, state, sending, stdout, pc, error>>

\* State::default()
StateDefault == [node_id |-> "", msg_id |-> U32(0)]

\* ------------------------------------------------------------------------
\* recv_message and send_message
\* ------------------------------------------------------------------------

\* How a read of the transport can go when n records of in have been
\* consumed: no failure; a failure before any byte of the next record is
\* consumed ("early"); and, when the next record is the final one and does
\* not end in "\n" (cut), a failure of the poll that follows its bytes,
\* after they were consumed ("late").
ReadFailures(in, cut, n) ==
    {"no", "early"} \cup (IF cut /\ n + 1 = Len(in) THEN {"late"} ELSE {})

\* recv_message(reader) with `n` records already consumed.  io = FALSE is
\* Err(io::Error) (a failed read, or bytes that are not UTF-8); val = <<>>
\* is Ok(None); val = <<r>> is Ok(Some(r)).  read_line returns the final
\* record whether or not it ends in "\n".
recv_message(in, n, fails) ==
    IF fails = "early" THEN [io |-> FALSE, val |-> <<>>, read |-> n]
    ELSE IF n = Len(in) THEN [io |-> TRUE, val |-> <<>>, read |-> n]
    ELSE IF fails = "late" THEN [io |-> FALSE, val |-> <<>>, read |-> n + 1]
    ELSE IF ~in[n + 1].utf8 THEN [io |-> FALSE, val |-> <<>>, read |-> n + 1]
    ELSE [io |-> TRUE, val |-> <<Decode(in[n + 1])>>, read |-> n + 1]

\* One entry of stdout.  bytes = "part": write_all failed after writing some
\* of the record.  nl: the line terminator was written.  flushed: flush
\* returned Ok after it.
Written(m, bytes) ==
    [rec |-> Encode(m), bytes |-> bytes, nl |-> FALSE, flushed |-> FALSE]

\* Mutant of AddOne: the counter advances by two.
AddTwo(n) == {[panic |-> FALSE, val |-> [hi |-> n.hi, lo |-> n.lo + 2]]}

\* Mutant of AddOne: the increment is lost.
AddOneStuck(n) == {[panic |-> FALSE, val |-> n]}

\* The value of `state.msg_id += 1` on a u32: n + 1 below u32::MAX; at
\* u32::MAX a panic when overflow checks are compiled in, 0 when not.
AddOne(n) ==
    IF n.lo < Limb - 1
    THEN {[panic |-> FALSE, val |-> [hi |-> n.hi, lo |-> n.lo + 1]]}
    ELSE IF n.hi < Limb - 1
    THEN {[panic |-> FALSE, val |-> [hi |-> n.hi + 1, lo |-> 0]]}
    ELSE {[panic |-> TRUE, val |-> n],
          [panic |-> FALSE, val |-> [hi |-> 0, lo |-> 0]]}

\* Mutant of Fail: the error is swallowed and the node goes on to read the
\* next record.
FailSwallowed(why) ==
    /\ pc' = "loop_recv"
    /\ error' = error

\* app returns Err(..) (or panics): the process exits with failure.
Fail(why) ==
    /\ pc' = "exit_err"
    /\ error' = why

\* Mutant of InitReply: the init_ok is sent from the address the request
\* was sent to.
InitReplyAsAddressed(st, msg) ==
    Message(msg.dst, msg.src, PayloadInitOk(msg.payload.msg_id))

\* Mutant of InitReply: in_reply_to taken from the node's own counter.
InitReplyOwnCounter(st, msg) ==
    Message(st.node_id, msg.src, PayloadInitOk(st.msg_id))

\* The reply to `init`: src = the identity just recorded, dst = the
\* requester, InitOk { in_reply_to: msg_id }.
InitReply(st, msg) ==
    Message(st.node_id, msg.src, PayloadInitOk(msg.payload.msg_id))

\* Mutant of EchoReply: the reply goes to the request's destination.
EchoReplyToDest(st, msg) ==
    Message(st.node_id, msg.dst,
            PayloadEchoOk(st.msg_id, msg.payload.msg_id, msg.payload.echo))

\* Mutant of EchoReply: the reply is sent as whoever the request addressed.
EchoReplyAsAddressed(st, msg) ==
    Message(msg.dst, msg.src,
            PayloadEchoOk(st.msg_id, msg.payload.msg_id, msg.payload.echo))

\* Mutant of EchoReply: the reply reuses the request's msg_id as its own.
EchoReplyReusesId(st, msg) ==
    Message(st.node_id, msg.src,
            PayloadEchoOk(msg.payload.msg_id, msg.payload.msg_id,
                          msg.payload.echo))

\* The reply to `echo`: src = the recorded identity, dst = the requester,
\* EchoOk { msg_id: <counter before the increment>, in_reply_to: msg_id,
\* echo }.
EchoReply(st, msg) ==
    Message(st.node_id, msg.src,
            PayloadEchoOk(st.msg_id, msg.payload.msg_id, msg.payload.echo))

\* Mutant of Emit: the record goes before everything written so far.
EmitFront(out, m) == <<Written(m, "all")>> \o out

\* write_all(&buf) on success: the record goes after everything written
\* before it.
Emit(out, m) == Append(out, Written(m, "all"))

\* Mutant of RejectFirst: the offending first record is dropped and the
\* node waits for another.
RetryFirst(why) ==
    /\ pc' = "init_recv"
    /\ error' = error
    /\ UNCHANGED <<state, sending>>

\* `message?` on a decode error and `_ => bail!(..)` before the handshake.
RejectFirst(why) ==
    /\ Fail(why)
    /\ UNCHANGED <<state, sending>>

\* Mutant of RejectLater: the offending record sends the node back to wait
\* for a handshake.
RestartHandshake(why) ==
    /\ pc' = "init_recv"
    /\ error' = error
    /\ UNCHANGED <<state, sending>>

\* Mutant of RejectLater: the offending record is dropped and the loop
\* goes on to the next one.
SkipLater(why) ==
    /\ pc' = "loop_recv"
    /\ error' = error
    /\ UNCHANGED <<state, sending>>

\* `message?` on a decode error and `_ => bail!(..)` in the loop.
RejectLater(why) ==
    /\ Fail(why)
    /\ UNCHANGED <<state, sending>>

\* Mutant of NoInitialMessage: an empty input is taken for a clean end.
NoInitialMessageOk ==
    /\ pc' = "exit_ok"
    /\ error' = error
    /\ message' = <<>>

\* Ok(None) before the handshake: bail!("no initial message").
NoInitialMessage ==
    /\ Fail("no initial message")
    /\ message' = <<>>

\* Mutant of EndOfInput: at end-of-input the loop polls the stream again.
EndOfInputSpins ==
    /\ pc' = "loop_recv"
    /\ UNCHANGED <<message, error>>

\* Mutant of EndOfInput: end-of-input in the loop is reported as an error.
EndOfInputFails ==
    /\ Fail("unexpected end of input")
    /\ message' = message

\* Ok(None) in the loop: `while let` ends and app returns Ok(()).
EndOfInput ==
    /\ pc' = "exit_ok"
    /\ UNCHANGED <<message, error>>

\* ------------------------------------------------------------------------
\* Initial state
\* ------------------------------------------------------------------------

Init ==
    /\ input \in Streams
    /\ lastCut \in BOOLEAN
    /\ (input = <<>> => ~lastCut)
    /\ pos = 0
    /\ message = <<>>
    /\ state = StateDefault
    /\ sending = <<>>
    /\ stdout = <<>>
    /\ pc = "init_recv"
    /\ error = ""

\* ------------------------------------------------------------------------
\* The steps of app
\* ------------------------------------------------------------------------

\* let Some(message) = recv_message(&mut stdin).await? else { bail!(..) };
RecvInit ==
    /\ pc = "init_recv"
    /\ \E fails \in ReadFailures(input, lastCut, pos) :
         LET r == recv_message(input, pos, fails) IN
         /\ pos' = r.read
         /\ IF ~r.io THEN Fail("io") /\ message' = <<>>
            ELSE IF r.val = <<>>
            THEN NoInitialMessage
            ELSE /\ message' = r.val
                 /\ pc' = "init_match"
                 /\ error' = error
    /\ UNCHANGED <<input, lastCut, state, sending, stdout>>

\* let Message { src, dst: _, payload } = message?;  match payload { .. }
\* up to the call of send_message.
MatchInit ==
    /\ pc = "init_match"
    /\ LET r == message[1] IN
       IF ~r.ok THEN RejectFirst("decode")
       ELSE IF r.msg.payload.type = "init"
       THEN /\ state' = [state EXCEPT !.node_id = r.msg.payload.node_id]
            /\ sending' = << InitReply(state', r.msg) >>
            /\ pc' = "write_buf"
            /\ error' = error
       ELSE RejectFirst("invalid payload")
    /\ message' = <<>>
    /\ UNCHANGED <<input, lastCut, pos, stdout>>

\* let buf = serde_json::to_vec(message)?;  writer.write_all(&buf).await?;
\* A failed write_all may have written none or some of buf.
WriteBuf ==
    /\ pc = "write_buf"
    /\ \E outcome \in {"ok", "none", "part"} :
         IF outcome = "ok"
         THEN /\ stdout' = Emit(stdout, sending[1])
              /\ pc' = "write_nl"
              /\ UNCHANGED <<sending, error>>
         ELSE /\ stdout' = IF outcome = "part"
                           THEN Append(stdout, Written(sending[1], "part"))
                           ELSE stdout
              /\ sending' = <<>>
              /\ Fail("io")
    /\ UNCHANGED <<input, lastCut, pos, message, state>>

\* writer.write_all(b"\n").await?;
WriteNl ==
    /\ pc = "write_nl"
    /\ \E fails \in BOOLEAN :
         IF fails
         THEN Fail("io") /\ sending' = <<>> /\ stdout' = stdout
         ELSE /\ stdout' = [stdout EXCEPT ![Len(stdout)].nl = TRUE]
              /\ pc' = "flush"
              /\ UNCHANGED <<sending, error>>
    /\ UNCHANGED <<input, lastCut, pos, message, state>>

\* Mutant of Flush: send_message returns without flushing.
FlushSkipped ==
    /\ pc = "flush"
    /\ pc' = "loop_recv"
    /\ sending' = <<>>
    /\ UNCHANGED <<input, lastCut, pos, message, state, stdout, error>>

\* writer.flush().await?;  Ok(())  and back in app, on to the loop.
Flush ==
    /\ pc = "flush"
    /\ \E fails \in BOOLEAN :
         IF fails
         THEN Fail("io") /\ stdout' = stdout
         ELSE /\ stdout' = [i \in 1..Len(stdout) |->
                               [stdout[i] EXCEPT !.flushed = TRUE]]
              /\ pc' = "loop_recv"
              /\ error' = error
    /\ sending' = <<>>
    /\ UNCHANGED <<input, lastCut, pos, message, state>>

\* while let Some(message) = recv_message(&mut stdin).await? { .. }  Ok(())
RecvLoop ==
    /\ pc = "loop_recv"
    /\ \E fails \in ReadFailures(input, lastCut, pos) :
         LET r == recv_message(input, pos, fails) IN
         /\ pos' = r.read
         /\ IF ~r.io THEN Fail("io") /\ message' = <<>>
            ELSE IF r.val = <<>>
            THEN EndOfInput
            ELSE /\ message' = r.val
                 /\ pc' = "loop_match"
                 /\ error' = error
    /\ UNCHANGED <<input, lastCut, state, sending, stdout>>

\* let Message { src, dst: _, payload } = message?;  match payload { .. }
\* up to the call of send_message: the reply is built, and the counter
\* advanced, before anything is written.
MatchLoop ==
    /\ pc = "loop_match"
    /\ LET r == message[1] IN
       IF ~r.ok THEN RejectLater("decode")
       ELSE IF r.msg.payload.type = "echo"
       THEN \E o \in AddOne(state.msg_id) :
              IF o.panic
              THEN Fail("overflow") /\ UNCHANGED <<state, sending>>
              ELSE /\ state' = [state EXCEPT !.msg_id = o.val]
                   /\ sending' = << EchoReply(state, r.msg) >>
                   /\ pc' = "write_buf"
                   /\ error' = error
       ELSE RejectLater("invalid payload")
    /\ message' = <<>>
    /\ UNCHANGED <<input, lastCut, pos, stdout>>

Next ==
    \/ RecvInit
    \/ MatchInit
    \/ WriteBuf
    \/ WriteNl
    \/ Flush
    \/ RecvLoop
    \/ MatchLoop

Spec == Init /\ [][Next]_vars

\* ------------------------------------------------------------------------
\* Vocabulary of the properties
\* ------------------------------------------------------------------------

\* An entry of stdout that is a whole line: every byte and the terminator.
Complete(e) == e.bytes = "all" /\ e.nl

\* app has returned.
Exited == pc \in {"exit_ok", "exit_err"}

\* app is before the end of the handshake block's match.
Uninitialized == pc \in {"init_recv", "init_match"}

\* The read of the final record failed after its bytes were consumed (it
\* does not end in "\n"): the record never reached app.
ReadLost ==
    /\ lastCut
    /\ pos = Len(input)
    /\ pc = "exit_err"
    /\ error = "io"
    /\ Len(stdout) < pos

\* What a record decodes to.
Kind(l) == LET d == Decode(l) IN IF d.ok THEN d.msg.payload.type ELSE "none"
IsInit(l) == Kind(l) = "init"
IsEcho(l) == Kind(l) = "echo"
IsReply(l) == Kind(l) \in {"init_ok", "echo_ok"}

\* A record that decodes, read as the JSON object with the same content:
\* members by name, none repeated.  Any other record, as it is.
Req(l) == LET d == Decode(l) IN IF d.ok THEN Encode(d.msg) ELSE l

\* The init_ok line the protocol asks for in answer to the wire record req.
ExpectInitOk(req) ==
    JLine(req.body.node_id, req.src,
          JBody(JStr("init_ok"), JNumAbsent, req.body.msg_id, JStrAbsent,
                JArrAbsent, JStrAbsent))

\* The echo_ok line the protocol asks for in answer to the wire record req,
\* from the node named id, as its n-th echo_ok (n counted from 0).
ExpectEchoOk(id, req, n) ==
    JLine(id, req.src,
          JBody(JStr("echo_ok"), JNum(n), req.body.msg_id, JStrAbsent,
                JArrAbsent, req.body.echo))

\* ------------------------------------------------------------------------
\* C1: when the first record of the input is anything but a valid `init`
\* envelope (an echo, init_ok or echo_ok payload, or a record that does not
\* decode), the node never gets past the handshake block: it can only end
\* with a fatal error, nothing is ever written to the output, its state is
\* untouched and no record after the first is consumed.
\* ------------------------------------------------------------------------
C1_NoInitNoReply ==
    (input # <<>> /\ ~IsInit(input[1])) =>
        /\ stdout = <<>>
        /\ sending = <<>>
        /\ pos <= 1
        /\ state = StateDefault
        /\ pc \in {"init_recv", "init_match", "exit_err"}
        /\ (pc = "exit_err" => error \in {"io", "decode", "invalid payload"})
        /\ (pc = "exit_err" /\ error # "io" => pos = 1)

\* An echo arrives first, with more input behind it: fatal, nothing written.
C1_Witness ==
    /\ Len(input) >= 2
    /\ IsEcho(input[1])
    /\ IsInit(input[2])
    /\ pc = "exit_err"
    /\ error = "invalid payload"
    /\ pos = 1
    /\ stdout = <<>>

\* ------------------------------------------------------------------------
\* C2: when the first record is an `init` with node_id I and msg_id M from
\* sender S, the node records I as its identity and the handshake writes
\* one line and no more: src = I, dest = S, body init_ok with
\* in_reply_to = M.  Once the node is in the loop that line is complete
\* and flushed.  (An init whose read failed was never received: the
\* identity then stays unset.)
\* ------------------------------------------------------------------------
C2_HandshakeReply ==
    (input # <<>> /\ IsInit(input[1])) =>
        LET req == Req(input[1]) IN
        /\ (pos >= 1 /\ ~Uninitialized =>
              \/ state.node_id = req.body.node_id.s
              \/ ReadLost /\ pos = 1 /\ state = StateDefault)
        /\ (pos <= 1 => Len(stdout) <= 1)
        /\ (stdout # <<>> =>
              /\ stdout[1].rec.src = req.body.node_id
              /\ stdout[1].rec.dest = req.src
              /\ stdout[1].rec.body.type = JStr("init_ok")
              /\ stdout[1].rec.body.in_reply_to = req.body.msg_id
              /\ stdout[1].rec.body.msg_id = JNumAbsent
              /\ stdout[1].rec.body.echo = JStrAbsent)
        /\ (pc \in {"loop_recv", "loop_match", "exit_ok"} =>
              /\ stdout # <<>>
              /\ Complete(stdout[1])
              /\ stdout[1].flushed)
        /\ (pc = "loop_recv" /\ pos = 1 => Len(stdout) = 1)

\* The handshake for node n2, msg_id 7, has just completed.
C2_Witness ==
    /\ input # <<>>
    /\ input[1] = SeqInitLine
    /\ pc = "loop_recv"
    /\ pos = 1
    /\ state.node_id = "n2"
    /\ Len(stdout) = 1
    /\ stdout[1].rec = ExpectInitOk(Req(input[1]))
    /\ stdout[1].flushed

\* ------------------------------------------------------------------------
\* C3: every echo request that the node has finished processing has
\* exactly one reply line: an echo_ok whose echo member is the request's
\* string unchanged and whose in_reply_to is the request's msg_id.  The
\* reply's own msg_id does not come from the request: it differs from the
\* request's msg_id whenever that differs from the node's counter.
\* ------------------------------------------------------------------------
C3_EchoCorrelation ==
    /\ Len(stdout) <= pos
    /\ (pc \in {"loop_recv", "exit_ok"} => Len(stdout) = pos)
    /\ (pc = "loop_match" => Len(stdout) = pos - 1)
    /\ \A k \in 2..Len(stdout) :
         LET req == Req(input[k])
             out == stdout[k].rec IN
         /\ IsEcho(req)
         /\ out.body.type = JStr("echo_ok")
         /\ out.body.echo = req.body.echo
         /\ out.body.in_reply_to = req.body.msg_id
         /\ (req.body.msg_id # JNum(k - 2) => out.body.msg_id # req.body.msg_id)

\* The echo of the empty string with msg_id u32::MAX has been answered.
C3_Witness ==
    /\ pc = "loop_recv"
    /\ pos = 2
    /\ input[2] = SeqEchoLine
    /\ Len(stdout) = 2
    /\ Complete(stdout[2])
    /\ stdout[2].rec.body.echo = JStr("")
    /\ stdout[2].rec.body.in_reply_to = JNumOf(U32Max)
    /\ stdout[2].rec.body.msg_id = JNum(0)

\* ------------------------------------------------------------------------
\* C4: the msg_id values of the echo_ok replies, read in output order, are
\* 0, 1, 2, ...: the k-th echo_ok carries msg_id k - 1 and answers the k-th
\* echo request; a run that ends cleanly has one reply per record.
\* ------------------------------------------------------------------------
C4_CounterSequence ==
    /\ \A k \in 2..Len(stdout) :
         /\ stdout[k].rec.body.msg_id = JNum(k - 2)
         /\ stdout[k].rec.body.in_reply_to = Req(input[k]).body.msg_id
    /\ (pc = "exit_ok" => Len(stdout) = Len(input))

\* Two consecutive echo requests answered with msg_id 0 and then 1.
C4_Witness ==
    /\ pc = "exit_ok"
    /\ Len(stdout) = 3
    /\ \A k \in 1..3 : Complete(stdout[k])
    /\ stdout[2].rec.body.msg_id = JNum(0)
    /\ stdout[3].rec.body.msg_id = JNum(1)
    /\ Req(input[2]).body.msg_id # Req(input[3]).body.msg_id

\* ------------------------------------------------------------------------
\* C5: a record after the first that decodes to anything but `echo` (a
\* second init, an init_ok, an echo_ok) is fatal: no record after it is
\* consumed, no line is written for it, the node does not exit
\* successfully, and once it has been matched the node has failed with
\* "invalid payload" (when the read of it failed, with the io error).
\* ------------------------------------------------------------------------
C5_PostHandshakeRejection ==
    \A k \in 2..Len(input) :
        Kind(input[k]) \in {"init", "init_ok", "echo_ok"} =>
            /\ pos <= k
            /\ Len(stdout) < k
            /\ pc # "exit_ok"
            /\ (pos = k => pc \in {"loop_match", "exit_err"})
            /\ (pos = k /\ pc = "exit_err" =>
                  error = "invalid payload" \/ ReadLost)

\* A second init arrives after the handshake, with an echo behind it.
C5_Witness ==
    /\ Len(input) = 3
    /\ IsInit(input[1])
    /\ IsInit(input[2])
    /\ IsEcho(input[3])
    /\ pc = "exit_err"
    /\ error = "invalid payload"
    /\ pos = 2
    /\ Len(stdout) = 1

\* ------------------------------------------------------------------------
\* C6: in every reachable state the output is the sequence of replies to a
\* prefix of the input, in input order, one per record: line 1 answers the
\* init, line k answers record k, and only the last line can be unfinished.
\* ------------------------------------------------------------------------
C6_ArrivalOrder ==
    /\ Len(stdout) <= pos
    /\ (stdout # <<>> => IsInit(input[1]))
    /\ \A k \in 1..Len(stdout) :
         /\ stdout[k].rec =
              IF k = 1 THEN ExpectInitOk(Req(input[1]))
              ELSE ExpectEchoOk(Req(input[1]).body.node_id, Req(input[k]), k - 2)
         /\ (k < Len(stdout) => Complete(stdout[k]) /\ stdout[k].flushed)

\* Two different echo requests answered in the order they arrived.
C6_Witness ==
    /\ Len(stdout) = 3
    /\ input[2] # input[3]
    /\ Req(input[2]).body.echo # Req(input[3]).body.echo
    /\ stdout[2].rec.body.echo = Req(input[2]).body.echo
    /\ stdout[3].rec.body.echo = Req(input[3]).body.echo
    /\ pc = "exit_ok"

\* ------------------------------------------------------------------------
\* C7 as stated: every reply's src and dest are the request's dest and src
\* swapped, whatever the request's dest is.  The code never reads the
\* request's dest, so this fails for a request addressed to another id.
\* ------------------------------------------------------------------------
C7_SwappedPair ==
    \A k \in 1..Len(stdout) :
        LET req == Req(input[k]) IN
        /\ stdout[k].rec.dest = req.src
        /\ stdout[k].rec.src = req.dest

\* ------------------------------------------------------------------------
\* C7 amended: every reply's dest is the request's src, and every reply's
\* src is the identity recorded from the init's node_id, whatever the
\* request's dest is; so src equals the request's dest exactly when the
\* request was addressed to that identity.
\* ------------------------------------------------------------------------
C7_ReplyAddressing ==
    \A k \in 1..Len(stdout) :
        LET req == Req(input[k])
            id == Req(input[1]).body.node_id IN
        /\ stdout[k].rec.dest = req.src
        /\ stdout[k].rec.src = id
        /\ (stdout[k].rec.src = req.dest <=> req.dest = id)

\* Node n1 has answered an echo that was addressed to n2.
C7_Witness ==
    /\ Len(stdout) >= 2
    /\ Complete(stdout[2])
    /\ Req(input[1]).body.node_id = JStr("n1")
    /\ Req(input[2]).dest = JStr("n2")
    /\ stdout[2].rec.src = JStr("n1")
    /\ stdout[2].rec.dest = Req(input[2]).src

\* ------------------------------------------------------------------------
\* C8: the stored identity is the default until the first record, an
\* `init`, has been matched; from then on it equals that init's node_id in
\* every state, and every echo_ok carries it as src, whatever the later
\* records contain.  (An init whose read failed was never received: the
\* identity then stays the default.)
\* ------------------------------------------------------------------------
C8_IdentityFixed ==
    /\ (pos = 0 \/ Uninitialized \/ ~IsInit(input[1]) =>
          state.node_id = StateDefault.node_id)
    /\ (pos >= 1 /\ ~Uninitialized /\ IsInit(input[1]) =>
          \/ state.node_id = Req(input[1]).body.node_id.s
          \/ ReadLost /\ pos = 1 /\ state = StateDefault)
    /\ \A k \in 2..Len(stdout) : stdout[k].rec.src = JStr(state.node_id)

\* After the handshake as n1 and one answered echo addressed to n2, an init
\* naming n2 arrived: the node failed and its identity is still n1.
C8_Witness ==
    /\ Len(input) = 3
    /\ Req(input[1]).body.node_id = JStr("n1")
    /\ IsEcho(input[2])
    /\ Req(input[2]).dest = JStr("n2")
    /\ input[3] = SeqInitLine
    /\ pos = 3
    /\ pc = "exit_err"
    /\ state.node_id = "n1"
    /\ Len(stdout) = 2
    /\ stdout[2].rec.src = JStr("n1")

\* The two lines the end-to-end scenario of the specification expects.
ScenarioInput ==
    << InitLine("c1", "n1", JNum(1), "n1", <<"n1">>),
       EchoLine("c1", "n1", JNum(2), JStr("hello")) >>
ScenarioOutput ==
    << JLine(JStr("n1"), JStr("c1"),
             JBody(JStr("init_ok"), JNumAbsent, JNum(1), JStrAbsent,
                   JArrAbsent, JStrAbsent)),
       JLine(JStr("n1"), JStr("c1"),
             JBody(JStr("echo_ok"), JNum(0), JNum(2), JStrAbsent,
                   JArrAbsent, JStr("hello"))) >>

\* ------------------------------------------------------------------------
\* C9: end-of-input in the loop is a clean end.  A step taken when the
\* node waits in the loop with all input consumed writes nothing, consumes
\* nothing and exits successfully (unless the read itself fails); a node
\* that has exited successfully has consumed all input after a handshake,
\* has written one complete flushed line per record, and takes no further
\* step.  On the input init(1, n1), echo(2, "hello") the output is exactly
\* init_ok(in_reply_to 1), echo_ok(msg_id 0, in_reply_to 2, "hello").
\* ------------------------------------------------------------------------
C9_CleanEndOfInput ==
    /\ [](pc = "exit_ok" =>
            /\ error = ""
            /\ input # <<>>
            /\ IsInit(input[1])
            /\ pos = Len(input)
            /\ Len(stdout) = Len(input)
            /\ \A k \in 1..Len(stdout) : Complete(stdout[k]) /\ stdout[k].flushed
            /\ sending = <<>>
            /\ ~ENABLED Next
            /\ (input = ScenarioInput =>
                  [k \in 1..Len(stdout) |-> stdout[k].rec] = ScenarioOutput))
    /\ [][(pc = "loop_recv" /\ pos = Len(input)) =>
            /\ stdout' = stdout
            /\ pos' = pos
            /\ state' = state
            /\ \/ pc' = "exit_ok" /\ error' = ""
               \/ pc' = "exit_err" /\ error' = "io"]_vars

\* The end-to-end scenario has run to its successful end.
C9_Witness ==
    /\ input = ScenarioInput
    /\ pc = "exit_ok"
    /\ pos = 2
    /\ Len(stdout) = 2
    /\ stdout[2].rec = ScenarioOutput[2]

\* ------------------------------------------------------------------------
\* C10: on an empty input the node never gets anywhere but to a fatal
\* error: nothing is consumed or written, the state is untouched, and when
\* it has stopped it has failed, with "no initial message" unless the read
\* itself failed.
\* ------------------------------------------------------------------------
C10_EmptyInputIsFatal ==
    input = <<>> =>
        /\ stdout = <<>>
        /\ sending = <<>>
        /\ pos = 0
        /\ state = StateDefault
        /\ pc \in {"init_recv", "exit_err"}
        /\ (pc = "exit_err" => error \in {"no initial message", "io"})

\* The empty input has been read to its end by the handshake block.
C10_Witness ==
    /\ input = <<>>
    /\ pc = "exit_err"
    /\ error = "no initial message"
    /\ stdout = <<>>

\* The number of echo_ok lines written whole to the output.
EchoOkWritten == Cardinality({k \in 2..Len(stdout) : Complete(stdout[k])})

\* app is inside send_message.
InSend == pc \in {"write_buf", "write_nl", "flush"}

\* ------------------------------------------------------------------------
\* C11 as stated: whenever the node is not in the middle of a write, also
\* after a failed write, the counter equals the number of echo_ok lines
\* written.  The code advances the counter while it builds the reply,
\* before send_message is called, so a failed write leaves it one ahead.
\* ------------------------------------------------------------------------
C11_CounterEqualsWritten ==
    ~InSend => state.msg_id = U32(EchoOkWritten)

\* ------------------------------------------------------------------------
\* C11 amended: the counter starts at 0, stays 0 through the handshake, and
\* is advanced once for every echo_ok the node builds, before that reply is
\* written.  It equals the number of echo_ok lines written, except that it
\* is one more while a reply's record and terminator are being written and
\* after such a write failed.
\* ------------------------------------------------------------------------
C11_CounterCountsBuilt ==
    /\ (pos <= 1 => state.msg_id = U32(0))
    /\ state.msg_id \in {U32(EchoOkWritten), U32(EchoOkWritten + 1)}
    /\ (state.msg_id # U32(EchoOkWritten) =>
          \/ pc \in {"write_buf", "write_nl"}
          \/ pc = "exit_err" /\ error = "io")
    /\ (pc \in {"init_recv", "init_match", "loop_recv", "loop_match",
                "flush", "exit_ok"} =>
          state.msg_id = U32(EchoOkWritten))
    /\ (pc \in {"write_buf", "write_nl"} /\ pos >= 2 =>
          state.msg_id = U32(EchoOkWritten + 1))

\* The write of the first echo_ok failed before any byte went out: the
\* counter is 1 and no echo_ok line exists.
C11_Witness ==
    /\ pc = "exit_err"
    /\ error = "io"
    /\ pos = 2
    /\ Len(stdout) = 1
    /\ EchoOkWritten = 0
    /\ state.msg_id = U32(1)

\* ------------------------------------------------------------------------
\* The node late in its life: the counter about to overflow
\* ------------------------------------------------------------------------

\* The state the node is in after a handshake as n1 and 2^32 - 1 answered
\* echo requests, which carried the msg_ids 0 .. 2^32 - 2 (C4): it waits in
\* the loop with the counter at u32::MAX.  input, pos and stdout hold the
\* records and lines from this point on only.
InitWrap ==
    /\ input \in Streams
    /\ lastCut \in BOOLEAN
    /\ (input = <<>> => ~lastCut)
    /\ pos = 0
    /\ message = <<>>
    /\ state = [node_id |-> "n1", msg_id |-> U32Max]
    /\ sending = <<>>
    /\ stdout = <<>>
    /\ pc = "loop_recv"
    /\ error = ""

NextWrap ==
    \/ WriteBuf
    \/ WriteNl
    \/ Flush
    \/ RecvLoop
    \/ MatchLoop

SpecWrap == InitWrap /\ [][NextWrap]_vars

\* The msg_id was carried by a reply written before InitWrap's state.
IssuedBefore(id) == id # JNumOf(U32Max)

\* ------------------------------------------------------------------------
\* C12: no two echo_ok replies of one process carry the same msg_id,
\* however many echo requests arrive: the replies written from InitWrap's
\* state on differ from each other and from every reply written before.
\* Without overflow checks `state.msg_id += 1` wraps from u32::MAX to 0,
\* and the next reply carries msg_id 0 like the first reply of the process.
\* ------------------------------------------------------------------------
C12_ReplyIdsNeverRepeat ==
    /\ \A k \in 1..Len(stdout) : ~IssuedBefore(stdout[k].rec.body.msg_id)
    /\ \A j, k \in 1..Len(stdout) :
         j # k => stdout[j].rec.body.msg_id # stdout[k].rec.body.msg_id

\* ------------------------------------------------------------------------
\* C13: a record that does not decode is never skipped.  Whatever its
\* place in the input, nothing after it is consumed, no line is written
\* for it, the node never exits successfully, and once it has been read the
\* identity and the counter are what they were before it and the node is
\* about to fail or has failed.
\* ------------------------------------------------------------------------
C13_DecodeFailureAborts ==
    \A k \in 1..Len(input) :
        input[k] \in BadLines =>
            /\ pos <= k
            /\ Len(stdout) < k
            /\ pc # "exit_ok"
            /\ (pos = k =>
                  /\ pc \in {"init_match", "loop_match", "exit_err"}
                  /\ sending = <<>>
                  /\ state.node_id =
                       IF k = 1 THEN StateDefault.node_id
                       ELSE Req(input[1]).body.node_id.s
                  /\ state.msg_id = U32(IF k = 1 THEN 0 ELSE k - 2))
            /\ (pos = k /\ pc = "exit_err" => error \in {"decode", "io"})

\* A record with an unknown type tag arrived after the handshake, with an
\* echo behind it: the node failed on it and wrote nothing more.
C13_Witness ==
    /\ Len(input) = 3
    /\ IsInit(input[1])
    /\ input[2] \in BadLines
    /\ input[2].wf
    /\ input[2].body.type = JStr("broadcast")
    /\ IsEcho(input[3])
    /\ pc = "exit_err"
    /\ error = "decode"
    /\ pos = 2
    /\ Len(stdout) = 1
    /\ state.msg_id = U32(0)

\* ------------------------------------------------------------------------
\* C14: a final record that end-of-input cuts off before its line
\* terminator is a framing error: it is never answered and the node does
\* not end successfully on it.  read_line hands such a record to the
\* decoder like any other, so when its bytes are a whole JSON envelope the
\* node answers it.
\* ------------------------------------------------------------------------
C14_CutRecordNeverAnswered ==
    lastCut =>
        /\ Len(stdout) < Len(input)
        /\ pc # "exit_ok"

\* ------------------------------------------------------------------------
\* The codec on its own: send_message writes an envelope, recv_message
\* reads the line back
\* ------------------------------------------------------------------------

\* Well-formed envelopes: every payload variant, with msg_id / in_reply_to
\* at both ends of the u32 range and in between.
U32Samples == {U32(0), U32(7), U32Max}
NameSamples == {"c1", "n1"}
EchoSamples == {"", "hello"}
Payloads ==
    { PayloadInit(i, n, ns) :
        i \in U32Samples, n \in NameSamples, ns \in {<<>>, <<"n1", "n2">>} }
    \cup { PayloadInitOk(i) : i \in U32Samples }
    \cup { PayloadEcho(i, e) : i \in U32Samples, e \in EchoSamples }
    \cup { PayloadEchoOk(i, j, e) :
             i \in U32Samples, j \in U32Samples, e \in EchoSamples }
Envelopes ==
    { Message(s, d, p) : s \in NameSamples, d \in NameSamples, p \in Payloads }

\* send_message is about to be called on an envelope; nothing was written.
InitCodec ==
    /\ input = <<>>
    /\ lastCut = FALSE
    /\ pos = 0
    /\ message = <<>>
    /\ state = StateDefault
    /\ sending \in { <<m>> : m \in Envelopes }
    /\ stdout = <<>>
    /\ pc = "write_buf"
    /\ error = ""

\* The line send_message wrote and flushed becomes the content of the
\* stream recv_message reads from.
Pipe ==
    /\ pc = "loop_recv"
    /\ input = <<>>
    /\ Len(stdout) = 1
    /\ stdout[1].bytes = "all" /\ stdout[1].nl /\ stdout[1].flushed
    /\ input' = << stdout[1].rec >>
    /\ UNCHANGED <<lastCut, pos, message, state, sending, stdout, pc, error>>

NextCodec ==
    \/ WriteBuf
    \/ WriteNl
    \/ Flush
    \/ Pipe
    \/ RecvLoop

SpecCodec == InitCodec /\ [][NextCodec]_vars

\* ------------------------------------------------------------------------
\* C15: round trip of the codec.  What send_message has written for an
\* envelope when it returns is one record with its line terminator, and
\* reading that line back with recv_message yields Ok, with an envelope
\* equal in every field to the one that was encoded.
\* ------------------------------------------------------------------------
C15_RoundTrip ==
    /\ (pc \in {"loop_recv", "loop_match", "exit_ok"} =>
          /\ Len(stdout) = 1
          /\ Complete(stdout[1])
          /\ \E m \in Envelopes : stdout[1].rec = Encode(m))
    /\ (pc = "loop_match" =>
          /\ input = << stdout[1].rec >>
          /\ \A m \in Envelopes :
               Encode(m) = input[1] => message = << [ok |-> TRUE, msg |-> m] >>)

\* An echo_ok envelope with msg_id u32::MAX and in_reply_to 7 has been
\* written, read back and decoded to itself.
C15_Witness ==
    /\ pc = "loop_match"
    /\ pos = 1
    /\ message =
         << [ok |-> TRUE,
             msg |-> Message("n1", "c1",
                             PayloadEchoOk(U32Max, U32(7), "hello"))] >>
    /\ input[1] =
         JLine(JStr("n1"), JStr("c1"),
               JBody(JStr("echo_ok"), JNumOf(U32Max), JNum(7), JStrAbsent,
                     JArrAbsent, JStr("hello")))

\* The number of lines written whole and flushed.
Answered ==
    Cardinality({k \in 1..Len(stdout) : Complete(stdout[k]) /\ stdout[k].flushed})

\* ------------------------------------------------------------------------
\* C16: one inbound record at a time, to completion.  The records read
\* exceed the flushed reply lines by at most one, at most one reply is
\* being sent, and whenever the node is about to read (or has ended
\* cleanly) every record read so far has its flushed reply; a step that
\* reads reads one record, and only from such a state.
\* ------------------------------------------------------------------------
C16_OneAtATime ==
    /\ [](/\ pos - Answered \in {0, 1}
          /\ Len(sending) <= 1
          /\ (pc \in {"init_recv", "loop_recv", "exit_ok"} =>
                pos = Answered /\ sending = <<>>)
          /\ (InSend => pos = Answered + 1 /\ Len(sending) = 1))
    /\ [][pos' # pos =>
            /\ pos' = pos + 1
            /\ pos = Answered
            /\ sending = <<>>
            /\ pc \in {"init_recv", "loop_recv"}]_vars

\* The third record has been read and is being matched while the replies
\* to the first two are written and flushed.
C16_Witness ==
    /\ pc = "loop_match"
    /\ pos = 3
    /\ Answered = 2
    /\ Len(stdout) = 2
    /\ message # <<>>
    /\ sending = <<>>

\* ------------------------------------------------------------------------
\* C17: a transport failure is fatal and absorbing.  A reply whose write or
\* flush did not complete is the last thing in the output, and the node is
\* either still inside that send_message or has failed with an io error;
\* an io error is always a failed node; and a failed node holds no message,
\* sends nothing and takes no further step: it reads and writes no more.
\* ------------------------------------------------------------------------
C17_TransportFailureIsFatal ==
    /\ (error = "io" => pc = "exit_err")
    /\ (pc = "exit_err" =>
          /\ error # ""
          /\ sending = <<>>
          /\ message = <<>>
          /\ ~ENABLED Next)
    /\ \A k \in 1..Len(stdout) :
         (~Complete(stdout[k]) \/ ~stdout[k].flushed) =>
             /\ k = Len(stdout)
             /\ \/ pc \in {"write_nl", "flush"}
                \/ pc = "exit_err" /\ error = "io"

\* The flush of the first echo_ok failed with one more record waiting: the
\* node has failed and the record stays unread.
C17_Witness ==
    /\ pc = "exit_err"
    /\ error = "io"
    /\ Len(input) = 3
    /\ pos = 2
    /\ Len(stdout) = 2
    /\ Complete(stdout[2])
    /\ ~stdout[2].flushed

\* ------------------------------------------------------------------------
\* The node on a transport that does not fail, with its steps scheduled
\* ------------------------------------------------------------------------

\* A step in which a read, a write or a flush of the transport fails.  (A
\* record that is not UTF-8 ends in an io error too, after it was consumed:
\* that step is the one an offending record causes on a transport that
\* works, and is not counted here.)
TransportFailureStep ==
    /\ pc' = "exit_err"
    /\ error' = "io"
    /\ ~(pc \in {"init_recv", "loop_recv"} /\ pos' = pos + 1
           /\ ~input[pos'].utf8)

ReliableNext == Next /\ ~TransportFailureStep

\* app is the one task block_on drives: whenever it can take a step it
\* eventually does.
SpecReliable == Init /\ [][ReliableNext]_vars /\ WF_vars(ReliableNext)

\* The number of leading records the protocol asks the node to answer: the
\* init and the echo requests that follow it without interruption.
ValidPrefixLen ==
    IF input = <<>> \/ ~IsInit(input[1]) THEN 0
    ELSE CHOOSE n \in 1..Len(input) :
           /\ \A k \in 2..n : IsEcho(input[k])
           /\ (n = Len(input) \/ ~IsEcho(input[n + 1]))

\* ------------------------------------------------------------------------
\* C18: on a transport that does not fail and with the node's steps
\* scheduled fairly, the node eventually stops for good, successfully
\* exactly when the whole input was a handshake followed by echo requests
\* and with a fatal error otherwise, and when it has stopped every request
\* before the first offending record (or the end of input) has its whole,
\* flushed reply, and nothing else was written.
\* ------------------------------------------------------------------------
C18_TerminatesHavingReplied ==
    <>[](/\ Exited
         /\ Len(stdout) = ValidPrefixLen
         /\ \A k \in 1..Len(stdout) : Complete(stdout[k]) /\ stdout[k].flushed
         /\ (pc = "exit_ok" <=> (input # <<>> /\ ValidPrefixLen = Len(input))))

\* The node answered the init and one echo, then failed on a third record
\* that is no echo.
C18_Witness ==
    /\ Len(input) = 3
    /\ ValidPrefixLen = 2
    /\ pc = "exit_err"
    /\ error \in {"decode", "invalid payload"}
    /\ pos = 3
    /\ Len(stdout) = 2
    /\ Answered = 2

\* ------------------------------------------------------------------------
\* C19: the handshake happens at most once and is never undone: the first
\* line the node writes is an init_ok, every later line is an echo_ok (so
\* there is at most one init_ok and never an init or an echo), and once the
\* node has left the wait for the handshake no step takes it back there.
\* ------------------------------------------------------------------------
C19_HandshakeOnce ==
    /\ [](\A k \in 1..Len(stdout) :
            stdout[k].rec.body.type =
                IF k = 1 THEN JStr("init_ok") ELSE JStr("echo_ok"))
    /\ [](Cardinality({k \in 1..Len(stdout) :
                         stdout[k].rec.body.type = JStr("init_ok")}) <= 1)
    /\ [][~Uninitialized => ~Uninitialized']_vars

\* The handshake and two echoes were answered; the input held three
\* requests.
C19_Witness ==
    /\ Len(stdout) = 3
    /\ Answered = 3
    /\ pos = 3
    /\ stdout[1].rec.body.type = JStr("init_ok")
    /\ stdout[3].rec.body.type = JStr("echo_ok")
    /\ pc = "loop_recv"

\* ------------------------------------------------------------------------
\* app as a function of its input, on a transport that does not fail
\* ------------------------------------------------------------------------

\* What a run leaves behind: the records written and how the process ended
\* (error "" is the successful return).
Outcome(out, why) ==
    [out |-> out, pc |-> IF why = "" THEN "exit_ok" ELSE "exit_err",
     error |-> why]

RECURSIVE AppLoop(_, _, _, _)
\* The `while let` loop from record n + 1 on, with the state st and the
\* records out already written: the set of outcomes the build can produce.
AppLoop(in, n, st, out) ==
    LET r == recv_message(in, n, "no") IN
    IF ~r.io THEN {Outcome(out, "io")}
    ELSE IF r.val = <<>> THEN {Outcome(out, "")}
    ELSE IF ~r.val[1].ok THEN {Outcome(out, "decode")}
    ELSE IF r.val[1].msg.payload.type = "echo"
    THEN UNION { IF o.panic THEN {Outcome(out, "overflow")}
                 ELSE AppLoop(in, r.read, [st EXCEPT !.msg_id = o.val],
                              Append(out, Encode(EchoReply(st, r.val[1].msg))))
                 : o \in AddOne(st.msg_id) }
    ELSE {Outcome(out, "invalid payload")}

\* The handshake block, then the loop.
App(in) ==
    LET r == recv_message(in, 0, "no") IN
    IF ~r.io THEN {Outcome(<<>>, "io")}
    ELSE IF r.val = <<>> THEN {Outcome(<<>>, "no initial message")}
    ELSE IF ~r.val[1].ok THEN {Outcome(<<>>, "decode")}
    ELSE IF r.val[1].msg.payload.type = "init"
    THEN LET st == [StateDefault EXCEPT
                       !.node_id = r.val[1].msg.payload.node_id] IN
         AppLoop(in, r.read, st, <<Encode(InitReply(st, r.val[1].msg))>>)
    ELSE {Outcome(<<>>, "invalid payload")}

\* Other values for the two fields app destructures with `_`.
DstSamples == {"n3"}
NodeIdsSamples == {<<"n3", "n1">>}

\* The body b of an init with the array a as its node_ids: the member of
\* that name in an object, the fourth element in an array.
WithNodeIds(b, a) ==
    IF b.k = "seq" THEN [b EXCEPT !.elems[4] = a]
    ELSE [b EXCEPT !.node_ids = a]

\* The records that differ from l at most in the string of "dest" and in the
\* strings of an init body's "node_ids".
VariantsOf(l) ==
    IF ~(l.utf8 /\ l.wf) THEN {l}
    ELSE LET o == Fields(l.body)
             isInit == o.k = "obj" /\ o.type = JStr("init")
                         /\ IsStringVec(o.node_ids) IN
         { [l EXCEPT !.dest = d,
                     !.body = IF isInit THEN WithNodeIds(l.body, a) ELSE @] :
             d \in IF IsString(l.dest)
                   THEN {l.dest} \cup {JStr(x) : x \in DstSamples}
                   ELSE {l.dest},
             a \in IF isInit
                   THEN {o.node_ids} \cup {JArr(x) : x \in NodeIdsSamples}
                   ELSE {JArrAbsent} }

RECURSIVE Variants(_)
\* The streams that differ from in at most in those fields, record by
\* record.
Variants(in) ==
    IF in = <<>> THEN {<<>>}
    ELSE { <<h>> \o t : h \in VariantsOf(Head(in)), t \in Variants(Tail(in)) }

\* The records on which the two fields can vary while everything else is
\* kept: two inits and two echoes that differ in them only, a reply payload,
\* a record with an unknown tag, and a record that is not UTF-8.
VariantLines ==
    { InitLine("c1", "n1", JNum(1), "n1", <<"n1">>),
      InitLine("c1", "n2", JNum(1), "n1", <<"n1", "n2">>),
      EchoLine("c1", "n1", JNum(2), JStr("hello")),
      EchoLine("c1", "n2", JNum(2), JStr("hello")),
      SeqInitLine,
      JLine(JStr("c1"), JStr("n1"),
            JBody(JStr("broadcast"), JNum(1), JNumAbsent, JStrAbsent,
                  JArrAbsent, JStrAbsent)),
      NonUtf8Line }

\* The node on the streams of those records.
InitVariants ==
    /\ Init
    /\ \A k \in 1..Len(input) : input[k] \in VariantLines

SpecVariants == InitVariants /\ [][Next]_vars

\* The records on stdout, and what this run would leave behind.
Recs == [k \in 1..Len(stdout) |-> stdout[k].rec]
Observed == [out |-> Recs, pc |-> pc, error |-> error]

\* The run ended because the transport failed (a record that is not UTF-8
\* also ends in an io error, after it was consumed).
TransportFailed ==
    /\ pc = "exit_err"
    /\ error = "io"
    /\ (pos = 0 \/ input[pos].utf8)

\* ------------------------------------------------------------------------
\* C20: the string in "dest" and the strings in an init's "node_ids" never
\* influence the node: for every input that differs from this run's input
\* only in those fields, what this run has written is the beginning of what
\* the node writes on that input, and when the run has ended on its own
\* (not by a transport failure) its output and exit are exactly those of
\* the node on that input.  In particular every reply carries the identity
\* the init gave as its src, whatever dest the request named.
\* ------------------------------------------------------------------------
C20_DestAndNodeIdsIgnored ==
    /\ \A i2 \in Variants(input) : \E o \in App(i2) :
         /\ Len(stdout) <= Len(o.out)
         /\ \A k \in 1..Len(stdout) : stdout[k].rec = o.out[k]
         /\ (Exited /\ ~TransportFailed => o = Observed)
    /\ \A k \in 1..Len(stdout) : stdout[k].rec.src = JStr(state.node_id)

\* Node n1 answered an init and an echo that were both addressed to n2; the
\* input has variants addressed elsewhere.
C20_Witness ==
    /\ pc = "exit_ok"
    /\ Len(input) = 2
    /\ input[1] = InitLine("c1", "n2", JNum(1), "n1", <<"n1", "n2">>)
    /\ input[2] = EchoLine("c1", "n2", JNum(2), JStr("hello"))
    /\ Answered = 2
    /\ stdout[2].rec.src = JStr("n1")
    /\ Cardinality(Variants(input)) = 8
    /\ \E i2 \in Variants(input) : i2[2].dest = JStr("n3") /\ i2[1] # input[1]

====
